---- MODULE Spec2Model ----
(***************************************************************************)
(* A model of the `diff` command line tool (src/src/main.rs): the four     *)
(* `get` modes, and for program mode the test harness that spawns one      *)
(* child per test case, feeds its stdin from a detached writer thread and  *)
(* collects its stdout with wait_with_output.                              *)
(*                                                                         *)
(* Texts are sequences of Unicode scalar values (naturals), byte strings   *)
(* are sequences of naturals below 256.                                    *)
(***************************************************************************)
EXTENDS Integers, Sequences, FiniteSets, TLC

(***************************************************************************)
(* Bounds of the model.                                                    *)
(***************************************************************************)
\* capacity, in bytes, of an OS pipe buffer
PipeCap == 1
\* longest suite that is run
MaxCases == 2
\* longest literal text handed to interactive mode
MaxLen == 3
\* longest suite that is run where progress is checked
LiveCases == 1

(***************************************************************************)
(* Option<T> and Result<T, E>.                                             *)
(***************************************************************************)
None == [some |-> FALSE, v |-> <<>>]
Some(x) == [some |-> TRUE, v |-> x]
Err == [ok |-> FALSE, v |-> <<>>]
Ok(x) == [ok |-> TRUE, v |-> x]

Min(a, b) == IF a <= b THEN a ELSE b
Max(a, b) == IF a >= b THEN a ELSE b

RECURSIVE Concat(_)
\* the concatenation of a sequence of sequences
Concat(ss) == IF ss = <<>> THEN <<>> ELSE Head(ss) \o Concat(Tail(ss))

\* s without its first n elements
Drop(s, n) == SubSeq(s, n + 1, Len(s))
\* the first n elements of s
Take(s, n) == SubSeq(s, 1, n)

\* n copies of x
Repeat(x, n) == [i \in 1..n |-> x]

(***************************************************************************)
(* UTF-8: str::as_bytes and String::from_utf8_lossy.                       *)
(***************************************************************************)
\* U+FFFD REPLACEMENT CHARACTER, what from_utf8_lossy puts for invalid bytes
REPLACEMENT == 65533

\* the UTF-8 encoding of one scalar value
EncodeChar(c) ==
  IF c < 128 THEN <<c>>
  ELSE IF c < 2048 THEN <<192 + (c \div 64), 128 + (c % 64)>>
  ELSE IF c < 65536
    THEN <<224 + (c \div 4096), 128 + ((c \div 64) % 64), 128 + (c % 64)>>
    ELSE <<240 + (c \div 262144), 128 + ((c \div 4096) % 64),
           128 + ((c \div 64) % 64), 128 + (c % 64)>>

\* input.as_bytes(): the UTF-8 bytes of a text
as_bytes(s) == Concat([i \in 1..Len(s) |-> EncodeChar(s[i])])

\* a continuation byte 10xxxxxx
IsCont(b) == b >= 128 /\ b <= 191

\* the bytes allowed right after lead byte b of a multi-byte sequence
SecondOk(b, b2) ==
  CASE b = 224 -> b2 >= 160 /\ b2 <= 191
    [] b = 237 -> b2 >= 128 /\ b2 <= 159
    [] b = 240 -> b2 >= 144 /\ b2 <= 191
    [] b = 244 -> b2 >= 128 /\ b2 <= 143
    [] OTHER -> IsCont(b2)

\* the length of the sequence lead byte b announces (0: b is no lead byte)
SeqWidth(b) ==
  IF b < 128 THEN 1
  ELSE IF b >= 194 /\ b <= 223 THEN 2
  ELSE IF b >= 224 /\ b <= 239 THEN 3
  ELSE IF b >= 240 /\ b <= 244 THEN 4
  ELSE 0

\* how many leading bytes of bs form a valid prefix of the sequence started by
\* Head(bs), up to its announced width w
RECURSIVE ValidUpTo(_, _, _)
ValidUpTo(bs, w, k) ==
  IF k >= w \/ k >= Len(bs) THEN k
  ELSE IF (k = 1 /\ SecondOk(bs[1], bs[2])) \/ (k > 1 /\ IsCont(bs[k + 1]))
    THEN ValidUpTo(bs, w, k + 1)
    ELSE k

\* the scalar value of a complete, valid sequence of w bytes
DecodeSeq(bs, w) ==
  CASE w = 1 -> bs[1]
    [] w = 2 -> (bs[1] - 192) * 64 + (bs[2] - 128)
    [] w = 3 -> (bs[1] - 224) * 4096 + (bs[2] - 128) * 64 + (bs[3] - 128)
    [] OTHER -> (bs[1] - 240) * 262144 + (bs[2] - 128) * 4096
                + (bs[3] - 128) * 64 + (bs[4] - 128)

RECURSIVE from_utf8_lossy(_)
\* String::from_utf8_lossy: valid sequences decode, and every maximal invalid
\* chunk becomes one U+FFFD
from_utf8_lossy(bs) ==
  IF bs = <<>> THEN <<>>
  ELSE LET w == SeqWidth(bs[1])
           k == IF w = 0 THEN 1 ELSE ValidUpTo(bs, w, 1)
       IN IF w # 0 /\ k = w
            THEN <<DecodeSeq(bs, w)>> \o from_utf8_lossy(Drop(bs, w))
            ELSE <<REPLACEMENT>> \o from_utf8_lossy(Drop(bs, k))

(***************************************************************************)
(* The diff engine: DiffMatchPatch::diff_main::<Compat> over characters.   *)
(* The library is not part of the repository; it is modelled after the     *)
(* diff-match-patch algorithm the specification describes in section 4.1:  *)
(* equality short cut, common prefix and suffix, the containment and       *)
(* single-character short cuts, an edit script through a longest common    *)
(* subsequence for the rest, and the final merge of adjacent operations.   *)
(***************************************************************************)
Equal(t) == [op |-> "Equal", data |-> t]
Insert(t) == [op |-> "Insert", data |-> t]
Delete(t) == [op |-> "Delete", data |-> t]

RECURSIVE common_prefix(_, _)
\* the length of the longest common prefix
common_prefix(l, r) ==
  IF l = <<>> \/ r = <<>> \/ Head(l) # Head(r) THEN 0
  ELSE 1 + common_prefix(Tail(l), Tail(r))

RECURSIVE common_suffix(_, _)
\* the length of the longest common suffix
common_suffix(l, r) ==
  IF l = <<>> \/ r = <<>> \/ l[Len(l)] # r[Len(r)] THEN 0
  ELSE 1 + common_suffix(Take(l, Len(l) - 1), Take(r, Len(r) - 1))

\* the first index at which short occurs in long, 0 when it does not
find(long, short) ==
  LET hits == {i \in 1..(Len(long) - Len(short) + 1) :
                 SubSeq(long, i, i + Len(short) - 1) = short}
  IN IF hits = {} THEN 0 ELSE CHOOSE i \in hits : \A j \in hits : i <= j

RECURSIVE LcsLen(_, _)
\* the length of a longest common subsequence
LcsLen(l, r) ==
  IF l = <<>> \/ r = <<>> THEN 0
  ELSE IF Head(l) = Head(r) THEN 1 + LcsLen(Tail(l), Tail(r))
  ELSE Max(LcsLen(Tail(l), r), LcsLen(l, Tail(r)))

RECURSIVE bisect(_, _)
\* a shortest edit script of single-character operations
bisect(l, r) ==
  IF l = <<>> THEN (IF r = <<>> THEN <<>> ELSE <<Insert(r)>>)
  ELSE IF r = <<>> THEN <<Delete(l)>>
  ELSE IF Head(l) = Head(r)
    THEN <<Equal(<<Head(l)>>)>> \o bisect(Tail(l), Tail(r))
  ELSE IF LcsLen(Tail(l), r) >= LcsLen(l, Tail(r))
    THEN <<Delete(<<Head(l)>>)>> \o bisect(Tail(l), r)
    ELSE <<Insert(<<Head(r)>>)>> \o bisect(l, Tail(r))

\* the diff of two texts that share no prefix and no suffix
compute(l, r) ==
  IF l = <<>> THEN <<Insert(r)>>
  ELSE IF r = <<>> THEN <<Delete(l)>>
  ELSE LET long == IF Len(l) > Len(r) THEN l ELSE r
           short == IF Len(l) > Len(r) THEN r ELSE l
           i == find(long, short)
           Op(t) == IF Len(l) > Len(r) THEN Delete(t) ELSE Insert(t)
       IN IF i # 0
            THEN <<Op(Take(long, i - 1)), Equal(short),
                   Op(Drop(long, i - 1 + Len(short)))>>
          ELSE IF Len(short) = 1 THEN <<Delete(l), Insert(r)>>
          ELSE bisect(l, r)

RECURSIVE RunLen(_)
\* the length of the leading run of operations that are not Equal
RunLen(ds) ==
  IF ds = <<>> \/ Head(ds).op = "Equal" THEN 0 ELSE 1 + RunLen(Tail(ds))

\* the text of the operations of kind k in ds, in order
TextOf(ds, k) ==
  Concat([i \in 1..Len(ds) |-> IF ds[i].op \in k THEN ds[i].data ELSE <<>>])

RECURSIVE cleanup_merge(_)
\* every run of deletions and insertions becomes one Delete followed by one
\* Insert, adjacent equalities become one, and empty operations disappear
\* (the list is bound to its value once, as ds)
cleanup_merge(list) ==
  CHOOSE merged \in
    {IF ds = <<>> THEN <<>>
     ELSE IF Head(ds).op = "Equal"
       THEN LET rest == cleanup_merge(Tail(ds))
            IN IF Head(ds).data = <<>> THEN rest
               ELSE IF rest # <<>> /\ Head(rest).op = "Equal"
                 THEN <<Equal(Head(ds).data \o Head(rest).data)>> \o Tail(rest)
                 ELSE <<Head(ds)>> \o rest
       ELSE LET n == RunLen(ds)
                run == Take(ds, n)
                del == TextOf(run, {"Delete"})
                ins == TextOf(run, {"Insert"})
            IN (IF del = <<>> THEN <<>> ELSE <<Delete(del)>>)
               \o (IF ins = <<>> THEN <<>> ELSE <<Insert(ins)>>)
               \o cleanup_merge(Drop(ds, n))
     : ds \in {list}} : TRUE

\* dmp.diff_main::<Compat>(left, right)
diff_main(l, r) ==
  IF l = r THEN (IF l = <<>> THEN <<>> ELSE <<Equal(l)>>)
  ELSE LET p == common_prefix(l, r)
           l1 == Drop(l, p)
           r1 == Drop(r, p)
           s == common_suffix(l1, r1)
           l2 == Take(l1, Len(l1) - s)
           r2 == Take(r1, Len(r1) - s)
       IN cleanup_merge(<<Equal(Take(l, p))>> \o compute(l2, r2)
                        \o <<Equal(Drop(l1, Len(l1) - s))>>)

\* diff with its operands the wrong way round
diff_swapped(left, right) == diff_main(right, left)

\* fn diff(left, right): the transcript of left against right
diff(left, right) == diff_main(left, right)

\* impl Display for DiffVec: one styled span per operation, in order
Display(ds) ==
  [i \in 1..Len(ds) |->
     [style |-> CASE ds[i].op = "Delete" -> "on_red"
                  [] ds[i].op = "Equal" -> "normal"
                  [] ds[i].op = "Insert" -> "on_cyan",
      text |-> ds[i].data]]

(***************************************************************************)
(* The inputs of a run: the command line, the two files it names, and      *)
(* what the child program does once it is spawned.                         *)
(***************************************************************************)
\* struct Test: four optional texts
Test(n, a, i, o) == [note |-> n, args |-> a, input |-> i, out |-> o]

\* a stdin payload that does not fit into a pipe buffer
BigInput == Repeat(97, PipeCap + 1)
\* a stdout volume that does not fit into a pipe buffer
BigOutput == Repeat(97, PipeCap + 1)

\* the test cases suites are made of: the case with no field set, and the
\* case with every field set (a note, two argument tokens, a payload larger
\* than a pipe buffer, and a lone replacement character as expected output)
TestSet ==
  {Test(None, None, None, None),
   Test(Some(<<110>>), Some(<<97, 32, 98>>), Some(BigInput), Some(<<REPLACEMENT>>))}

\* the suites of at most n cases a suite file can hold
Suites(n) == UNION {[1..m -> TestSet] : m \in 0..n}

\* the texts over {a, b} of at most MaxLen characters
Texts == UNION {[1..n -> {97, 98}] : n \in 0..MaxLen}

\* what a child does: write its output then read stdin to EOF, read stdin
\* to EOF then write its output, or write its output and never read stdin
ChildKinds == {"write_read", "read_write", "write_only"}
\* the bytes a child writes to its stdout
ChildOutputs == {<<>>, <<255>>, BigOutput}

\* an entry of the file system: whether the path resolves, its text if readable
NoFile == [exists |-> FALSE, text |-> None]
Unreadable == [exists |-> TRUE, text |-> None]
File(t) == [exists |-> TRUE, text |-> Some(t)]

VARIABLES
  cli,      \* the parsed command line: mode, left, right
  fs,       \* the files `left` and `right` name, and how the right one parses
  pc,       \* where the main thread is
  idx,      \* the number of test cases taken from the suite so far
  stdout,   \* the lines printed so far
  panic,    \* the message of the main thread's panic, and the operands it names
  child,    \* the child process of the current case
  stdin,    \* per case, the pipe to the child's stdin
  outpipe,  \* the pipe from the current child's stdout
  writers,  \* per case, the thread that writes the stdin payload
  output,   \* the bytes wait_with_output has collected
  hist      \* per case: the arguments passed, what the child wrote, what was captured

vars == <<cli, fs, pc, idx, stdout, panic, child, stdin, outpipe, writers, output, hist>>

Cases == 1..MaxCases

NoChild == [st |-> "none", kind |-> "write_only", phase |-> "exit", rem |-> <<>>]
NoPipe == [buf |-> 0, reader |-> FALSE, holder |-> "closed"]
NoWriter == [st |-> "none", rem |-> 0]
NoHist == [spawn |-> "none", argv |-> <<>>, out |-> <<>>, wrote |-> <<>>,
           captured |-> <<>>, returned |-> FALSE]
NoPanic == [msg |-> "", names |-> {}]

InitRest ==
  /\ pc = "start"
  /\ idx = 0
  /\ stdout = <<>>
  /\ panic = NoPanic
  /\ child = NoChild
  /\ stdin = [i \in Cases |-> NoPipe]
  /\ outpipe = [buf |-> <<>>, wopen |-> FALSE]
  /\ writers = [i \in Cases |-> NoWriter]
  /\ output = <<>>
  /\ hist = [i \in Cases |-> NoHist]

\* get <left> <right> --mode program, the suite file holding at most n cases
InitProgram(n) ==
  /\ cli = [mode |-> "Program", left |-> <<108>>, right |-> <<114>>]
  /\ \E l \in {NoFile, File(<<>>)}, r \in {NoFile, File(<<>>)},
        p \in {Err} \cup {Ok(s) : s \in Suites(n)} :
       fs = [left |-> l, right |-> r, parse |-> p]

\* get <left> <right> --mode interactive
InitInteractive ==
  /\ \E l \in Texts, r \in Texts :
       cli = [mode |-> "Interactive", left |-> l, right |-> r]
  /\ fs = [left |-> NoFile, right |-> NoFile, parse |-> Err]

\* get <left> <right> --mode batch, and get <left> <right>
InitFiles ==
  /\ \E m \in {"Batch", "None"} :
       cli = [mode |-> m, left |-> <<108>>, right |-> <<114>>]
  /\ \E l \in {NoFile, Unreadable, File(<<97>>), File(<<98, 97>>)},
        r \in {NoFile, Unreadable, File(<<97>>), File(<<98, 97>>)} :
       fs = [left |-> l, right |-> r, parse |-> Err]

Init == (InitProgram(MaxCases) \/ InitInteractive \/ InitFiles) /\ InitRest

\* the same runs, of the shorter suites
LiveInit == (InitProgram(LiveCases) \/ InitInteractive \/ InitFiles) /\ InitRest

(***************************************************************************)
(* The file system and the fallible steps before any diff.                 *)
(***************************************************************************)
\* the entry a path names
Lookup(path) == IF path = cli.left THEN fs.left ELSE fs.right

\* fs::canonicalize: succeeds when the path resolves
canonicalize(path) == IF Lookup(path).exists THEN Ok(path) ELSE Err

\* fs::read_to_string: succeeds when the path resolves to readable text
read_to_string(path) ==
  IF Lookup(path).exists /\ Lookup(path).text.some
    THEN Ok(Lookup(path).text.v) ELSE Err

\* toml::from_str::<Tests>: the suite of the document, or a parse error
toml_from_str(doc) == fs.parse

\* program_diff that tells a failed left operand apart by the left result
\* instead of the right one
program_diff_guard(left, right) ==
  LET l == canonicalize(left)
      r == read_to_string(right)
  IN IF l.ok
       THEN IF r.ok
              THEN IF toml_from_str(r.v).ok
                     THEN [ok |-> TRUE, e |-> "",
                           v |-> [app |-> l.v, tests |-> toml_from_str(r.v).v]]
                     ELSE [ok |-> FALSE, e |-> "RightParse", v |-> <<>>]
              ELSE [ok |-> FALSE, e |-> "RightRead", v |-> <<>>]
     ELSE IF ~l.ok THEN [ok |-> FALSE, e |-> "BothRead", v |-> <<>>]
     ELSE [ok |-> FALSE, e |-> "LeftRead", v |-> <<>>]

\* fn program_diff: the Tester, or which operand failed
program_diff(left, right) ==
  LET l == canonicalize(left)
      r == read_to_string(right)
  IN IF l.ok
       THEN IF r.ok
              THEN IF toml_from_str(r.v).ok
                     THEN [ok |-> TRUE, e |-> "",
                           v |-> [app |-> l.v, tests |-> toml_from_str(r.v).v]]
                     ELSE [ok |-> FALSE, e |-> "RightParse", v |-> <<>>]
              ELSE [ok |-> FALSE, e |-> "RightRead", v |-> <<>>]
     ELSE IF ~r.ok THEN [ok |-> FALSE, e |-> "BothRead", v |-> <<>>]
     ELSE [ok |-> FALSE, e |-> "LeftRead", v |-> <<>>]

\* fn files_diff: the transcript of the two files' texts, or which read failed
files_diff(left, right) ==
  LET l == read_to_string(left)
      r == read_to_string(right)
  IN IF l.ok
       THEN IF r.ok
              THEN [ok |-> TRUE, e |-> "", l |-> l.v, r |-> r.v, v |-> diff(l.v, r.v)]
              ELSE [ok |-> FALSE, e |-> "RightRead", l |-> <<>>, r |-> <<>>, v |-> <<>>]
     ELSE IF ~r.ok
       THEN [ok |-> FALSE, e |-> "BothRead", l |-> <<>>, r |-> <<>>, v |-> <<>>]
     ELSE [ok |-> FALSE, e |-> "LeftRead", l |-> <<>>, r |-> <<>>, v |-> <<>>]

\* the operands the panic message of a read or parse error displays
Named(e) ==
  CASE e = "LeftRead" -> {"left"}
    [] e = "RightRead" -> {"right"}
    [] e = "RightParse" -> {"right"}
    [] e = "BothRead" -> {"left", "right"}

(***************************************************************************)
(* What the tool prints.                                                   *)
(***************************************************************************)
\* println!("{:?}", cli)
DebugLine == [kind |-> "debug", left |-> <<>>, right |-> <<>>, ops |-> <<>>,
              spans |-> <<>>]

\* println!("{}", note.on_green()), "test!" when the case has no note
NoteLine(note) ==
  [kind |-> "note", left |-> <<>>, right |-> <<>>, ops |-> <<>>,
   spans |-> <<[style |-> "on_green",
                text |-> IF note.some THEN note.v ELSE <<116, 101, 115, 116, 33>>]>>]

\* println!("{}", o) for o = diff(left, right): the operands, the transcript
\* and its rendering (each bound to its value once)
DiffLine(left, right) ==
  CHOOSE line \in
    {[kind |-> "diff", left |-> lr[1], right |-> lr[2], ops |-> lr[3],
      spans |-> Display(lr[3])]
     : lr \in {<<l, r, diff(l, r)>> : l \in {left}, r \in {right}}} : TRUE

(***************************************************************************)
(* main: the modes that diff once.                                         *)
(***************************************************************************)
Untouched == UNCHANGED <<cli, fs, idx, child, stdin, outpipe, writers, output, hist>>

\* mode interactive: the two arguments are diffed as literal text
GetInteractive ==
  /\ pc = "start" /\ cli.mode = "Interactive"
  /\ stdout' = stdout \o <<DebugLine, DiffLine(cli.left, cli.right)>>
  /\ pc' = "done"
  /\ UNCHANGED panic /\ Untouched

\* mode batch: the two files are diffed, a failed read panics
GetBatch ==
  /\ pc = "start" /\ cli.mode = "Batch"
  /\ LET res == files_diff(cli.left, cli.right)
     IN IF res.ok
          THEN /\ stdout' = stdout \o <<DebugLine, DiffLine(res.l, res.r)>>
               /\ pc' = "done"
               /\ UNCHANGED panic
          ELSE /\ stdout' = stdout \o <<DebugLine>>
               /\ pc' = "panicked"
               /\ panic' = [msg |-> res.e, names |-> Named(res.e)]
  /\ Untouched

\* no mode, treating a failed read as batch mode does
GetDefault_strict ==
  /\ pc = "start" /\ cli.mode = "None"
  /\ LET res == files_diff(cli.left, cli.right)
     IN IF res.ok
          THEN /\ stdout' = stdout \o <<DebugLine, DiffLine(res.l, res.r)>>
               /\ pc' = "done"
               /\ UNCHANGED panic
          ELSE /\ stdout' = stdout \o <<DebugLine>>
               /\ pc' = "panicked"
               /\ panic' = [msg |-> res.e, names |-> Named(res.e)]
  /\ Untouched

\* no mode: the two files are diffed, and when that fails the two arguments
GetDefault ==
  /\ pc = "start" /\ cli.mode = "None"
  /\ LET res == files_diff(cli.left, cli.right)
     IN stdout' = stdout \o <<DebugLine,
                              IF res.ok THEN DiffLine(res.l, res.r)
                              ELSE DiffLine(cli.left, cli.right)>>
  /\ pc' = "done"
  /\ UNCHANGED panic /\ Untouched

(***************************************************************************)
(* main: program mode, the loop over the test cases.                       *)
(***************************************************************************)
\* the Tester that program_diff returned
o == program_diff(cli.left, cli.right).v
\* the test case the loop is at
test == o.tests[idx]

\* mode program: resolve the program and load the suite, or panic
GetProgram ==
  /\ pc = "start" /\ cli.mode = "Program"
  /\ stdout' = stdout \o <<DebugLine>>
  /\ LET res == program_diff(cli.left, cli.right)
     IN IF res.ok
          THEN pc' = "loop" /\ UNCHANGED panic
          ELSE pc' = "panicked" /\ panic' = [msg |-> res.e, names |-> Named(res.e)]
  /\ Untouched

\* Command::args(&test.args): an Option iterates over its value, if any
CommandArgs(args) == IF args.some THEN <<args.v>> ELSE <<>>

\* the phase a child of kind k starts in
FirstPhase(k) == IF k = "read_write" THEN "read" ELSE "write"

\* the next test case: print its note, spawn the child with piped stdin and stdout
SpawnOk(kind, out) ==
  /\ pc = "loop" /\ idx < Len(o.tests)
  /\ idx' = idx + 1
  /\ stdout' = stdout \o <<NoteLine(o.tests[idx + 1].note)>>
  /\ child' = [st |-> "running", kind |-> kind, phase |-> FirstPhase(kind), rem |-> out]
  /\ stdin' = [stdin EXCEPT ![idx + 1] = [buf |-> 0, reader |-> TRUE, holder |-> "main"]]
  /\ outpipe' = [buf |-> <<>>, wopen |-> TRUE]
  /\ output' = <<>>
  /\ hist' = [hist EXCEPT ![idx + 1] =
                [NoHist EXCEPT !.spawn = "ok", !.out = out,
                               !.argv = CommandArgs(o.tests[idx + 1].args)]]
  /\ pc' = "feed"
  /\ UNCHANGED <<cli, fs, panic, writers>>

\* the next test case: print its note, spawn fails and expect() panics
SpawnFail ==
  /\ pc = "loop" /\ idx < Len(o.tests)
  /\ idx' = idx + 1
  /\ stdout' = stdout \o <<NoteLine(o.tests[idx + 1].note)>>
  /\ hist' = [hist EXCEPT ![idx + 1] =
                [NoHist EXCEPT !.spawn = "failed",
                               !.argv = CommandArgs(o.tests[idx + 1].args)]]
  /\ pc' = "panicked"
  /\ panic' = [msg |-> "Failed to spawn child process", names |-> {}]
  /\ UNCHANGED <<cli, fs, child, stdin, outpipe, writers, output>>

\* Feed that waits for the writer before it goes on to wait_with_output:
\* the payload is written synchronously
Feed_sync ==
  \/ /\ pc = "feed"
     /\ IF test.input.some
          THEN /\ writers' = [writers EXCEPT ![idx] =
                                [st |-> "running", rem |-> Len(as_bytes(test.input.v))]]
               /\ stdin' = [stdin EXCEPT ![idx].holder = "writer"]
          ELSE UNCHANGED <<writers, stdin>>
     /\ pc' = "feed_join"
     /\ UNCHANGED <<cli, fs, idx, stdout, panic, child, outpipe, output, hist>>
  \/ /\ pc = "feed_join"
     /\ writers[idx].st # "running"
     /\ pc' = "wait_with_output"
     /\ UNCHANGED <<cli, fs, idx, stdout, panic, child, stdin, outpipe, writers,
                    output, hist>>

\* if let Some(input): take the stdin handle and spawn the detached writer
Feed ==
  /\ pc = "feed"
  /\ IF test.input.some
       THEN /\ writers' = [writers EXCEPT ![idx] =
                             [st |-> "running", rem |-> Len(as_bytes(test.input.v))]]
            /\ stdin' = [stdin EXCEPT ![idx].holder = "writer"]
       ELSE UNCHANGED <<writers, stdin>>
  /\ pc' = "wait_with_output"
  /\ UNCHANGED <<cli, fs, idx, stdout, panic, child, outpipe, output, hist>>

\* wait_with_output that leaves child.stdin open
DropStdin_keep(holder) == holder

\* who holds the write end of the stdin pipe once wait_with_output has
\* dropped child.stdin
DropStdin(holder) == IF holder = "main" THEN "closed" ELSE holder

\* wait_with_output, first step: drop(self.stdin.take())
WaitDropStdin ==
  /\ pc = "wait_with_output"
  /\ stdin' = [stdin EXCEPT ![idx].holder = DropStdin(@)]
  /\ pc' = "read"
  /\ UNCHANGED <<cli, fs, idx, stdout, panic, child, outpipe, writers, output, hist>>

\* wait_with_output, read_to_end: take what the stdout pipe holds
MainRead(k) ==
  /\ pc = "read"
  /\ k <= Len(outpipe.buf)
  /\ output' = output \o Take(outpipe.buf, k)
  /\ outpipe' = [outpipe EXCEPT !.buf = Drop(@, k)]
  /\ UNCHANGED <<cli, fs, pc, idx, stdout, panic, child, stdin, writers, hist>>

\* wait_with_output, read_to_end: the pipe is empty and its write end closed
MainReadEOF ==
  /\ pc = "read"
  /\ outpipe.buf = <<>> /\ ~outpipe.wopen
  /\ pc' = "wait"
  /\ UNCHANGED <<cli, fs, idx, stdout, panic, child, stdin, outpipe, writers, output, hist>>

\* wait_with_output, wait(): the child has exited, Output is returned
MainWait ==
  /\ pc = "wait"
  /\ child.st = "exited"
  /\ hist' = [hist EXCEPT ![idx].captured = output, ![idx].returned = TRUE]
  /\ pc' = "diff"
  /\ UNCHANGED <<cli, fs, idx, stdout, panic, child, stdin, outpipe, writers, output>>

\* Report with the actual output on the left and the expected one on the right
Report_swapped ==
  /\ pc = "diff"
  /\ stdout' = stdout \o
       <<DiffLine(from_utf8_lossy(output), IF test.out.some THEN test.out.v ELSE <<>>)>>
  /\ pc' = "loop"
  /\ UNCHANGED <<cli, fs, idx, panic, child, stdin, outpipe, writers, output, hist>>

\* diff(test.out or "", lossy text of output.stdout) and print it
Report ==
  /\ pc = "diff"
  /\ stdout' = stdout \o
       <<DiffLine(IF test.out.some THEN test.out.v ELSE <<>>, from_utf8_lossy(output))>>
  /\ pc' = "loop"
  /\ UNCHANGED <<cli, fs, idx, panic, child, stdin, outpipe, writers, output, hist>>

\* the suite is exhausted: main returns and the process exits
LoopEnd ==
  /\ pc = "loop" /\ idx = Len(o.tests)
  /\ pc' = "done"
  /\ UNCHANGED <<cli, fs, idx, stdout, panic, child, stdin, outpipe, writers, output, hist>>

(***************************************************************************)
(* The writer thread of case i: stdin.write_all(input).expect(..), then    *)
(* the handle is dropped. It runs as long as the process does.             *)
(***************************************************************************)
ProcessAlive == pc \notin {"done", "panicked"}

\* write(): k more bytes fit into the pipe
WriterWrite(i, k) ==
  /\ ProcessAlive
  /\ writers[i].st = "running"
  /\ stdin[i].reader
  /\ k <= Min(writers[i].rem, PipeCap - stdin[i].buf)
  /\ writers' = [writers EXCEPT ![i].rem = @ - k]
  /\ stdin' = [stdin EXCEPT ![i].buf = @ + k]
  /\ UNCHANGED <<cli, fs, pc, idx, stdout, panic, child, outpipe, output, hist>>

\* a failed write that takes the whole process down
WriterFail_abort(i) ==
  /\ ProcessAlive
  /\ writers[i].st = "running" /\ writers[i].rem > 0
  /\ ~stdin[i].reader
  /\ writers' = [writers EXCEPT ![i] = [st |-> "panicked", rem |-> 0]]
  /\ stdin' = [stdin EXCEPT ![i].holder = "closed"]
  /\ pc' = "panicked"
  /\ panic' = [msg |-> "Failed to write to stdin", names |-> {}]
  /\ UNCHANGED <<cli, fs, idx, stdout, child, outpipe, output, hist>>

\* write() fails, the read end is closed: expect() panics in the thread,
\* and unwinding drops the handle
WriterFail(i) ==
  /\ ProcessAlive
  /\ writers[i].st = "running" /\ writers[i].rem > 0
  /\ ~stdin[i].reader
  /\ writers' = [writers EXCEPT ![i] = [st |-> "panicked", rem |-> 0]]
  /\ stdin' = [stdin EXCEPT ![i].holder = "closed"]
  /\ UNCHANGED <<cli, fs, pc, idx, stdout, panic, child, outpipe, output, hist>>

\* write_all returned Ok: the closure ends and drops the handle
WriterDone(i) ==
  /\ ProcessAlive
  /\ writers[i].st = "running" /\ writers[i].rem = 0
  /\ writers' = [writers EXCEPT ![i].st = "done"]
  /\ stdin' = [stdin EXCEPT ![i].holder = "closed"]
  /\ UNCHANGED <<cli, fs, pc, idx, stdout, panic, child, outpipe, output, hist>>

(***************************************************************************)
(* The child process of the current case.                                  *)
(***************************************************************************)
\* the phase after phase p of a child of kind k
NextPhase(k, p) ==
  IF (k = "write_read" /\ p = "write") THEN "read"
  ELSE IF (k = "read_write" /\ p = "read") THEN "write"
  ELSE "exit"

\* write(): k more bytes fit into the stdout pipe
ChildWrite(k) ==
  /\ child.st = "running" /\ child.phase = "write"
  /\ k <= Min(Len(child.rem), PipeCap - Len(outpipe.buf))
  /\ outpipe' = [outpipe EXCEPT !.buf = @ \o Take(child.rem, k)]
  /\ child' = [child EXCEPT !.rem = Drop(@, k)]
  /\ hist' = [hist EXCEPT ![idx].wrote = @ \o Take(child.rem, k)]
  /\ UNCHANGED <<cli, fs, pc, idx, stdout, panic, stdin, writers, output>>

\* everything is written
ChildWritten ==
  /\ child.st = "running" /\ child.phase = "write" /\ child.rem = <<>>
  /\ child' = [child EXCEPT !.phase = NextPhase(child.kind, "write")]
  /\ UNCHANGED <<cli, fs, pc, idx, stdout, panic, stdin, outpipe, writers, output, hist>>

\* read(): take k bytes the stdin pipe holds
ChildRead(k) ==
  /\ child.st = "running" /\ child.phase = "read"
  /\ k <= stdin[idx].buf
  /\ stdin' = [stdin EXCEPT ![idx].buf = @ - k]
  /\ UNCHANGED <<cli, fs, pc, idx, stdout, panic, child, outpipe, writers, output, hist>>

\* read() returns 0: the stdin pipe is empty and nobody holds its write end
ChildReadEOF ==
  /\ child.st = "running" /\ child.phase = "read"
  /\ stdin[idx].buf = 0 /\ stdin[idx].holder = "closed"
  /\ child' = [child EXCEPT !.phase = NextPhase(child.kind, "read")]
  /\ UNCHANGED <<cli, fs, pc, idx, stdout, panic, stdin, outpipe, writers, output, hist>>

\* exit: the child's ends of both pipes close
ChildExit ==
  /\ child.st = "running" /\ child.phase = "exit"
  /\ child' = [child EXCEPT !.st = "exited"]
  /\ stdin' = [stdin EXCEPT ![idx].reader = FALSE, ![idx].buf = 0]
  /\ outpipe' = [outpipe EXCEPT !.wopen = FALSE]
  /\ UNCHANGED <<cli, fs, pc, idx, stdout, panic, writers, output, hist>>

(***************************************************************************)
(* The specifications.                                                     *)
(***************************************************************************)
\* the main thread in program mode
Harness ==
  \/ GetProgram
  \/ \E kind \in ChildKinds, out \in ChildOutputs : SpawnOk(kind, out)
  \/ SpawnFail
  \/ Feed
  \/ WaitDropStdin
  \/ \E k \in 1..PipeCap : MainRead(k)
  \/ MainReadEOF
  \/ MainWait
  \/ Report
  \/ LoopEnd

\* the main thread
Main ==
  \/ GetInteractive
  \/ GetBatch
  \/ GetDefault
  \/ Harness

Writer(i) ==
  \/ \E k \in 1..PipeCap : WriterWrite(i, k)
  \/ WriterFail(i)
  \/ WriterDone(i)

Child ==
  \/ \E k \in 1..PipeCap : ChildWrite(k)
  \/ ChildWritten
  \/ \E k \in 1..PipeCap : ChildRead(k)
  \/ ChildReadEOF
  \/ ChildExit

Next == Main \/ (\E i \in Cases : Writer(i)) \/ Child

Spec == Init /\ [][Next]_vars

\* the scheduler runs the harness, every writer thread and the child whenever
\* they can take a step
Fairness ==
  /\ WF_vars(Harness)
  /\ \A i \in Cases : WF_vars(Writer(i))
  /\ WF_vars(Child)

LiveSpec == LiveInit /\ [][Next]_vars /\ Fairness

(***************************************************************************)
(* Vocabulary of the properties.                                           *)
(***************************************************************************)
\* the number of test cases of the suite, 0 when no suite was loaded
NumTests ==
  IF cli.mode = "Program" /\ program_diff(cli.left, cli.right).ok
    THEN Len(o.tests) ELSE 0

\* the expected output of case i, absent read as the empty text
ExpectedOut(i) == IF o.tests[i].out.some THEN o.tests[i].out.v ELSE <<>>

\* the diff of case i has been printed: the lines of a program run are the
\* debug line, then for every case its note and its diff
Reported(i) == cli.mode = "Program" /\ Len(stdout) >= 2 * i + 1
NoteOf(i) == stdout[2 * i]
ReportOf(i) == stdout[2 * i + 1]

\* a rendered transcript shows a deletion or an insertion
Highlighted(spans) == \E n \in 1..Len(spans) : spans[n].style # "normal"

\* the operands whose file does not resolve, cannot be read
Unresolved(e) == ~e.exists
Unread(e) == ~(e.exists /\ e.text.some)

\* a case is in progress: its child runs
InCase == child.st = "running"

\* the child cannot write: the stdout pipe is full
ChildBlockedOnStdout ==
  /\ child.st = "running" /\ child.phase = "write"
  /\ child.rem # <<>> /\ Len(outpipe.buf) = PipeCap

\* the writer of case i cannot write: the stdin pipe is full
WriterBlockedOnStdin(i) ==
  /\ writers[i].st = "running" /\ writers[i].rem > 0
  /\ stdin[i].reader /\ stdin[i].buf = PipeCap

\* the case of C1: a payload, and a child that writes more than a pipe buffer
\* before it reads stdin to EOF
C1Case ==
  /\ InCase
  /\ test.input.some
  /\ child.kind = "write_read"
  /\ Len(hist[idx].out) > PipeCap

\* the case of C4: no payload, and a child that reads stdin to EOF
C4Case ==
  /\ InCase
  /\ ~test.input.some
  /\ child.kind \in {"write_read", "read_write"}

\* U+0009..U+000D and U+0020, the white space of ASCII
IsWhitespace(c) == c \in {9, 10, 11, 12, 13, 32}

RECURSIVE SplitWhitespace(_)
\* the maximal runs of characters of t that are not white space, in order
SplitWhitespace(t) ==
  IF t = <<>> THEN <<>>
  ELSE IF IsWhitespace(Head(t)) THEN SplitWhitespace(Tail(t))
  ELSE LET stops == {n \in 1..Len(t) : IsWhitespace(t[n])}
           n == IF stops = {} THEN Len(t) + 1
                ELSE CHOOSE m \in stops : \A k \in stops : m <= k
       IN <<Take(t, n - 1)>> \o SplitWhitespace(Drop(t, n - 1))

(***************************************************************************)
(* The properties.                                                         *)
(***************************************************************************)
\* C1: with a stdin payload and a child that writes more than a pipe buffer
\* of stdout before it reads stdin to EOF, the child, the writer and the main
\* thread are never all blocked on full pipes, the invocation eventually
\* returns, and what it captured is every byte the child wrote, in order.
C1_PipeSafety ==
  /\ [](~(C1Case /\ ChildBlockedOnStdout /\ WriterBlockedOnStdin(idx)
          /\ ~ENABLED Harness))
  /\ \A i \in Cases : (idx = i /\ C1Case) ~> hist[i].returned
  /\ [](\A i \in Cases : hist[i].returned =>
          hist[i].captured = hist[i].wrote /\ hist[i].wrote = hist[i].out)

C1_Witness ==
  /\ pc = "diff"
  /\ test.input.some
  /\ child.kind = "write_read"
  /\ Len(hist[idx].out) > PipeCap
  /\ hist[idx].captured = hist[idx].out

\* C2 (as claimed): a failed spawn of case i does not end the run fatally,
\* and once the run has ended every case of the suite was executed.
C2_SuiteContinues ==
  \A i \in Cases : hist[i].spawn = "failed" =>
    /\ pc # "panicked"
    /\ pc = "done" => \A j \in 1..NumTests : hist[j].spawn # "none"

\* C3 (as claimed): the arguments passed to the child are the tokens of the
\* case's args text between white space, none when args is absent or empty.
C3_ArgsSplit ==
  \A i \in Cases : hist[i].spawn = "ok" =>
    hist[i].argv = SplitWhitespace(IF o.tests[i].args.some
                                     THEN o.tests[i].args.v ELSE <<>>)

\* C4: for a case without input nobody holds the write end of the child's
\* stdin once the main thread reads the output or waits for the exit, and
\* the invocation of a child that reads stdin to EOF eventually returns.
C4_StdinClosed ==
  /\ [](pc \in {"read", "wait"} /\ ~test.input.some
          => stdin[idx].holder = "closed")
  /\ \A i \in Cases : (idx = i /\ C4Case) ~> hist[i].returned

C4_Witness ==
  /\ pc = "diff"
  /\ ~test.input.some
  /\ child.kind \in {"write_read", "read_write"}
  /\ hist[idx].returned

C6_WriterJoined ==
  \A i \in Cases : hist[i].returned => writers[i].st # "running"

\* C7: in program mode, when the program path does not resolve, the suite
\* file cannot be read or does not parse, the run panics before any child is
\* spawned and any diff printed, and the message names the left operand when
\* only the program fails, the right one when only the suite fails, both when
\* neither can be read, and never an operand that did not fail.
C7_ResolutionFatal ==
  cli.mode = "Program" /\ pc # "start"
  /\ (Unresolved(fs.left) \/ Unread(fs.right) \/ ~fs.parse.ok)
  => /\ pc = "panicked"
     /\ \A i \in Cases : hist[i].spawn = "none"
     /\ \A n \in 1..Len(stdout) : stdout[n].kind # "diff"
     /\ panic.names # {}
     /\ "left" \in panic.names => Unresolved(fs.left)
     /\ "right" \in panic.names => Unread(fs.right) \/ ~fs.parse.ok
     /\ Unresolved(fs.left) /\ ~Unread(fs.right) /\ fs.parse.ok
          => panic.names = {"left"}
     /\ ~Unresolved(fs.left) => panic.names = {"right"}
     /\ Unresolved(fs.left) /\ Unread(fs.right) => panic.names = {"left", "right"}

C7_Witness ==
  /\ cli.mode = "Program" /\ pc = "panicked"
  /\ Unresolved(fs.left) /\ Unread(fs.right)
  /\ panic.names = {"left", "right"}

\* C8: every transcript printed is a list of Equal, Insert and Delete
\* operations; the text of its Equal and Delete operations, in order, is the
\* left operand of the diff, the text of its Equal and Insert operations the
\* right operand.
C8_Reconstruction ==
  \A n \in 1..Len(stdout) : stdout[n].kind = "diff" =>
    /\ \A k \in 1..Len(stdout[n].ops) :
         stdout[n].ops[k].op \in {"Equal", "Insert", "Delete"}
    /\ TextOf(stdout[n].ops, {"Equal", "Delete"}) = stdout[n].left
    /\ TextOf(stdout[n].ops, {"Equal", "Insert"}) = stdout[n].right

C8_Witness ==
  /\ cli.mode = "Interactive" /\ pc = "done"
  /\ cli.left # <<>> /\ cli.right # <<>> /\ Len(cli.left) # Len(cli.right)
  /\ \A k \in {"Equal", "Insert", "Delete"} :
       \E m \in 1..Len(stdout[2].ops) : stdout[2].ops[m].op = k
  /\ TextOf(stdout[2].ops, {"Equal", "Delete"}) = cli.left

\* C9 (as claimed): the report of a case shows no difference exactly when
\* the bytes captured from the child's stdout are the bytes of the expected
\* output.
C9_VerdictOnBytes ==
  \A i \in Cases : Reported(i) =>
    (~Highlighted(ReportOf(i).spans) <=> hist[i].captured = as_bytes(ExpectedOut(i)))

\* C9 (amended): every case is reported by its note, "test!" when it has
\* none, and the rendered diff of the expected output (left) against the
\* lossily decoded captured stdout (right), which shows no difference exactly
\* when that decoded text is the expected output.
C9_Verdict ==
  \A i \in Cases : Reported(i) =>
    /\ NoteOf(i) = NoteLine(o.tests[i].note)
    /\ ReportOf(i).kind = "diff"
    /\ ReportOf(i).left = ExpectedOut(i)
    /\ ReportOf(i).right = from_utf8_lossy(hist[i].captured)
    /\ ~Highlighted(ReportOf(i).spans)
         <=> from_utf8_lossy(hist[i].captured) = ExpectedOut(i)
    /\ ReportOf(i).spans = Display(ReportOf(i).ops)

C9_Witness ==
  \E i \in Cases :
    /\ Reported(i)
    /\ hist[i].captured # as_bytes(ExpectedOut(i))
    /\ from_utf8_lossy(hist[i].captured) = ExpectedOut(i)
    /\ ~Highlighted(ReportOf(i).spans)

\* C10: without a mode the run never panics on a read; it prints the diff of
\* the two files' texts when both can be read and of the two arguments
\* themselves otherwise. In batch mode a file that cannot be read makes the
\* run panic without a diff, naming exactly the operands that cannot be read.
C10_DefaultFallback ==
  /\ cli.mode = "None" /\ pc # "start" =>
       /\ pc = "done" /\ panic = NoPanic
       /\ Len(stdout) = 2 /\ stdout[2].kind = "diff"
       /\ IF ~Unread(fs.left) /\ ~Unread(fs.right)
            THEN /\ stdout[2].left = fs.left.text.v
                 /\ stdout[2].right = fs.right.text.v
            ELSE /\ stdout[2].left = cli.left
                 /\ stdout[2].right = cli.right
  /\ cli.mode = "Batch" /\ pc # "start" /\ (Unread(fs.left) \/ Unread(fs.right)) =>
       /\ pc = "panicked"
       /\ \A n \in 1..Len(stdout) : stdout[n].kind # "diff"
       /\ panic.names = {x \in {"left", "right"} : Unread(fs[x])}

C10_Witness ==
  /\ cli.mode = "None" /\ pc = "done"
  /\ Unread(fs.left) /\ ~Unread(fs.right)
  /\ stdout[2].left = cli.left /\ stdout[2].right = cli.right

====
